---------------------------- MODULE Spec2Model ----------------------------
(***************************************************************************)
(* Model of eval_hub.services.model_service.ModelService: the registry of  *)
(* model servers (explicitly registered servers and "runtime" servers      *)
(* loaded from the process environment).                                   *)
(*                                                                         *)
(* Representation of Python values.                                        *)
(*  - An environment variable NAME is the sequence of its "_"-separated    *)
(*    segments: EVAL_HUB_MODEL_SERVER_A_URL is                             *)
(*    <<"EVAL","HUB","MODEL","SERVER","A","URL">>.                         *)
(*  - An environment variable VALUE is a sequence of atoms; an atom is a   *)
(*    whitespace character " ", a comma ",", or a non-empty chunk of text  *)
(*    holding neither.  The Python string is the concatenation of the      *)
(*    atoms: <<" ", "http://a">> is " http://a".                           *)
(*  - os.environ is a sequence of <<name, value>> pairs with distinct      *)
(*    names, in iteration order.                                           *)
(*  - A Python dict is a sequence of [key, value] records with distinct    *)
(*    keys, in insertion order.                                            *)
(*  - An optional value is <<>> for None and <<v>> for the value v.        *)
(***************************************************************************)
EXTENDS Naturals, Sequences, FiniteSets, TLC

VARIABLES
    registered,   \* self._registered_servers : dict server_id -> ModelServer
    runtime,      \* self._runtime_servers    : dict server_id -> ModelServer
    initialized,  \* self._initialized
    env,          \* os.environ
    now,          \* the clock read by utcnow()
    envDirty,     \* history: os.environ was assigned since the last load
    loaded,       \* history: _load_runtime_servers has run
    last,         \* history: the last call, its arguments and its result
    pre,          \* history: the registry as it was before the last call
    inflight      \* the register_server call each thread is in, if any

vars ==
    <<registered, runtime, initialized, env, now, envDirty, loaded, last, pre,
      inflight>>

\* Largest reading of the clock.
MaxClock == 1

\* Largest number of variables in an environment the loader is run on.
MaxEnvLen == 4

\* Largest number of results of one evaluation request, and largest count of
\* one status in a tally.
MaxResults == 3

---------------------------------------------------------------------------
(* Optional values *)

None == <<>>

Some(v) == <<v>>

---------------------------------------------------------------------------
(* Python dicts, in insertion order *)

EmptyDict == <<>>

Keys(d) == {d[i].key : i \in 1..Len(d)}

KeySeq(d) == [i \in 1..Len(d) |-> d[i].key]

Values(d) == [i \in 1..Len(d) |-> d[i].value]

IndexOf(d, k) == CHOOSE i \in 1..Len(d) : d[i].key = k

DictGet(d, k) == d[IndexOf(d, k)].value

\* d[k] = v : an existing key keeps its position, a new key is appended.
DictSet(d, k, v) ==
    IF k \in Keys(d)
    THEN [d EXCEPT ![IndexOf(d, k)] = [key |-> k, value |-> v]]
    ELSE Append(d, [key |-> k, value |-> v])

\* Mutant of DictDel: removes the first entry, whatever the key.
DictDelFirst(d, k) == Tail(d)

\* del d[k]
DictDel(d, k) ==
    LET i == IndexOf(d, k)
    IN  SubSeq(d, 1, i - 1) \o SubSeq(d, i + 1, Len(d))

---------------------------------------------------------------------------
(* Strings *)

Whitespace == {" "}

RECURSIVE LStrip(_)
LStrip(s) ==
    IF s # <<>> /\ Head(s) \in Whitespace THEN LStrip(Tail(s)) ELSE s

RECURSIVE RStrip(_)
RStrip(s) ==
    IF s # <<>> /\ s[Len(s)] \in Whitespace
    THEN RStrip(SubSeq(s, 1, Len(s) - 1))
    ELSE s

\* str.strip()
Strip(s) == RStrip(LStrip(s))

\* str.lower() of one chunk of text, for the chunks the model uses: name
\* segments and values.  A chunk without upper-case letters is left as it is.
LowerAtom(a) ==
    CASE a = "A" -> "a"
      [] a = "B" -> "b"
      [] a = "C" -> "c"
      [] a = "D" -> "d"
      [] a = "DEFAULT" -> "default"
      [] a = "EVAL" -> "eval"
      [] a = "HUB" -> "hub"
      [] a = "MODEL" -> "model"
      [] a = "MODELS" -> "models"
      [] a = "SERVER" -> "server"
      [] a = "SERVERS" -> "servers"
      [] a = "MYSERVER" -> "myserver"
      [] a = "URL" -> "url"
      [] a = "ID" -> "id"
      [] a = "TYPE" -> "type"
      [] a = "VLLM" -> "vllm"
      [] a = "Bogus" -> "bogus"
      [] a = "OpenAI-Compatible" -> "openai-compatible"
      [] OTHER -> a

\* The Python string of a value: its atoms concatenated.
RECURSIVE Concat(_)
Concat(s) == IF s = <<>> THEN "" ELSE Head(s) \o Concat(Tail(s))

\* str.lower() of a value, as a Python string.
RECURSIVE LowerStr(_)
LowerStr(s) ==
    IF s = <<>> THEN "" ELSE LowerAtom(Head(s)) \o LowerStr(Tail(s))

\* group(1).lower() of a run of name segments.
RECURSIVE JoinLower(_)
JoinLower(segs) ==
    IF segs = <<>> THEN ""
    ELSE IF Len(segs) = 1 THEN LowerAtom(Head(segs))
    ELSE LowerAtom(Head(segs)) \o "_" \o JoinLower(Tail(segs))

\* str.split(","): the runs of atoms between the commas.
RECURSIVE SplitComma(_, _)
SplitComma(s, cur) ==
    IF s = <<>> THEN <<cur>>
    ELSE IF Head(s) = "," THEN <<cur>> \o SplitComma(Tail(s), <<>>)
    ELSE SplitComma(Tail(s), Append(cur, Head(s)))

\* [m.strip() for m in parts if m.strip()]
RECURSIVE StripNonEmpty(_)
StripNonEmpty(parts) ==
    IF parts = <<>> THEN <<>>
    ELSE IF Strip(Head(parts)) # <<>>
         THEN <<Concat(Strip(Head(parts)))>> \o StripNonEmpty(Tail(parts))
         ELSE StripNonEmpty(Tail(parts))

\* [m.strip() for m in models_str.split(",") if m.strip()] if models_str else []
ParseModelNames(models_str) ==
    IF models_str # <<>> THEN StripNonEmpty(SplitComma(models_str, <<>>)) ELSE <<>>

---------------------------------------------------------------------------
(* The enumerations of eval_hub.models.model *)

\* ModelType: "openai-compatible" is the member the loader names; "vllm"
\* stands for the members it does not name.
ModelTypeValues == {"openai-compatible", "vllm"}

OPENAI_COMPATIBLE == "openai-compatible"

ACTIVE == "active"

INACTIVE == "inactive"

\* Mutant of ParseModelType: the lowered string is taken as it is, without
\* the fallback of the except branch.
ParseModelTypeNoFallback(model_type_str) == LowerStr(model_type_str)

\* try: ModelType(s.lower())  except ValueError: ModelType.OPENAI_COMPATIBLE
ParseModelType(model_type_str) ==
    IF LowerStr(model_type_str) \in ModelTypeValues
    THEN LowerStr(model_type_str)
    ELSE OPENAI_COMPATIBLE

---------------------------------------------------------------------------
(* os.environ *)

EnvHas(e, name) == \E i \in 1..Len(e) : e[i][1] = name

\* os.getenv(name, default)
GetEnv(e, name, default) ==
    IF EnvHas(e, name)
    THEN e[CHOOSE i \in 1..Len(e) : e[i][1] = name][2]
    ELSE default

IsPrefix(p, s) == Len(p) <= Len(s) /\ SubSeq(s, 1, Len(p)) = p

\* "SERVER" in segment, for the segments the model uses.
HasSERVER(seg) == seg \in {"SERVER", "SERVERS", "MYSERVER"}

SERVER_PREFIX == <<"EVAL", "HUB", "MODEL", "SERVER">>

LEGACY_PREFIX == <<"EVAL", "HUB", "MODEL">>

\* name.startswith(prefix + "_") and name.endswith("_URL")
StartsEndsURL(name, prefix) ==
    /\ Len(name) > Len(prefix)
    /\ IsPrefix(prefix, name)
    /\ name[Len(name)] = "URL"

\* "SERVER" not in env_var
NoSERVER(name) == \A i \in 1..Len(name) : ~HasSERVER(name[i])

\* The segments of group(1) of re.match(prefix + "_(.+)_URL", name), for a
\* name that starts with prefix + "_" and ends with "_URL".
Group1(name, prefix) == SubSeq(name, Len(prefix) + 1, Len(name) - 1)

\* Whether re.match(prefix + "_(.+)_URL", name) matches such a name: (.+)
\* needs at least one character between prefix + "_" and the last "_URL".
Matches(name, prefix) ==
    /\ Len(name) >= Len(prefix) + 2
    /\ Group1(name, prefix) # <<"">>

---------------------------------------------------------------------------
(* ModelServer and ServerModel *)

\* ServerModel(model_name=..., description=None, status=ACTIVE, tags=["runtime"])
RuntimeModel(model_name) ==
    [model_name |-> model_name, description |-> None,
     status |-> ACTIVE, tags |-> <<"runtime">>]

RuntimeModels(model_names) ==
    [i \in 1..Len(model_names) |-> RuntimeModel(model_names[i])]

\* ModelServer(..., api_key_required=True, status=ACTIVE, tags=["runtime"],
\*             created_at=utcnow(), updated_at=utcnow())
\* The clock is read twice: t is the pair of the two readings.
RuntimeServer(server_id, server_type, base_url, models, t) ==
    [server_id |-> server_id, server_type |-> server_type,
     base_url |-> base_url, api_key_required |-> TRUE,
     models |-> models, server_config |-> None,
     status |-> ACTIVE, tags |-> <<"runtime">>,
     created_at |-> t[1], updated_at |-> t[2]]

---------------------------------------------------------------------------
(* The clock during a call.  A load reads the clock twice for each server  *)
(* it builds and at no other place; the clock can advance between any two  *)
(* readings.  The readings of a load are a sequence t that never           *)
(* decreases, taken in the order the servers are built; the load carries   *)
(* the number of readings used so far next to the dict it is building.     *)

\* runtime_servers = {} and no reading made yet.
NoServers == [servers |-> EmptyDict, used |-> 0]

\* The two readings made for the server that is built next.
NextReadingPair(acc, t) == <<t[acc.used + 1], t[acc.used + 2]>>

\* runtime_servers[server_id] = runtime_server, two readings having been
\* made for it.
Built(acc, server_id, runtime_server) ==
    [servers |-> DictSet(acc.servers, server_id, runtime_server),
     used |-> acc.used + 2]

---------------------------------------------------------------------------
(* ModelService._load_runtime_servers *)

MODEL_SERVER_URL == <<"MODEL", "SERVER", "URL">>

MODEL_SERVER_ID == <<"MODEL", "SERVER", "ID">>

MODEL_SERVER_TYPE == <<"MODEL", "SERVER", "TYPE">>

MODEL_SERVER_MODELS == <<"MODEL", "SERVER", "MODELS">>

\* Mutant of ModelNamesOr: the parsed names, without the fallback.
ModelNamesOnly(models_str, server_id) == ParseModelNames(models_str)

\* model_names, or [server_id] when no model is named
ModelNamesOr(models_str, server_id) ==
    IF ParseModelNames(models_str) # <<>>
    THEN ParseModelNames(models_str)
    ELSE <<server_id>>

\* Simple pattern: MODEL_SERVER_URL with MODEL_SERVER_ID, _TYPE, _MODELS.
LoadSimple(e, t) ==
    LET model_server_url == GetEnv(e, MODEL_SERVER_URL, <<>>)
        server_id == Concat(GetEnv(e, MODEL_SERVER_ID, <<"default">>))
        server_type == ParseModelType(GetEnv(e, MODEL_SERVER_TYPE, <<OPENAI_COMPATIBLE>>))
        model_names == ModelNamesOr(GetEnv(e, MODEL_SERVER_MODELS, <<>>), server_id)
    IN  IF model_server_url # <<>> /\ Strip(model_server_url) # <<>>
        THEN Built(NoServers, server_id,
                   RuntimeServer(server_id, server_type,
                                 Concat(Strip(model_server_url)),
                                 RuntimeModels(model_names),
                                 NextReadingPair(NoServers, t)))
        ELSE NoServers

\* One iteration of the loop over EVAL_HUB_MODEL_SERVER_<SERVER_ID>_URL.
NamespacedEntry(e, name, value, acc, t) ==
    LET g == Group1(name, SERVER_PREFIX)
        base_url == Strip(value)
        server_id == Concat(GetEnv(e, SERVER_PREFIX \o g \o <<"ID">>, <<JoinLower(g)>>))
        server_type == ParseModelType(
            GetEnv(e, SERVER_PREFIX \o g \o <<"TYPE">>, <<OPENAI_COMPATIBLE>>))
        model_names == ModelNamesOr(
            GetEnv(e, SERVER_PREFIX \o g \o <<"MODELS">>, <<>>), server_id)
    IN  IF /\ StartsEndsURL(name, SERVER_PREFIX)
           /\ Matches(name, SERVER_PREFIX)
           /\ base_url # <<>>
        THEN Built(acc, server_id,
                   RuntimeServer(server_id, server_type, Concat(base_url),
                                 RuntimeModels(model_names),
                                 NextReadingPair(acc, t)))
        ELSE acc

RECURSIVE LoadNamespaced(_, _, _, _)
LoadNamespaced(e, i, acc, t) ==
    IF i > Len(e) THEN acc
    ELSE LoadNamespaced(e, i + 1, NamespacedEntry(e, e[i][1], e[i][2], acc, t), t)

\* One iteration of the loop over the legacy EVAL_HUB_MODEL_<ID>_URL.
LegacyEntry(e, name, value, acc, t) ==
    LET g == Group1(name, LEGACY_PREFIX)
        base_url == Strip(value)
        server_id == Concat(GetEnv(e, LEGACY_PREFIX \o g \o <<"ID">>, <<JoinLower(g)>>))
        server_type == ParseModelType(
            GetEnv(e, LEGACY_PREFIX \o g \o <<"TYPE">>, <<OPENAI_COMPATIBLE>>))
    IN  IF /\ StartsEndsURL(name, LEGACY_PREFIX)
           /\ NoSERVER(name)
           /\ Matches(name, LEGACY_PREFIX)
           /\ JoinLower(g) \notin Keys(acc.servers)
           /\ base_url # <<>>
        THEN Built(acc, server_id,
                   RuntimeServer(server_id, server_type, Concat(base_url),
                                 RuntimeModels(<<server_id>>),
                                 NextReadingPair(acc, t)))
        ELSE acc

RECURSIVE LoadLegacy(_, _, _, _)
LoadLegacy(e, i, acc, t) ==
    IF i > Len(e) THEN acc
    ELSE LoadLegacy(e, i + 1, LegacyEntry(e, e[i][1], e[i][2], acc, t), t)

\* The three patterns in the order of the code, with clock readings t.
LoadPatterns(e, t) ==
    LoadLegacy(e, 1, LoadNamespaced(e, 1, LoadSimple(e, t), t), t)

\* The dict assigned to self._runtime_servers, read from environment e in a
\* load whose clock readings are t.
LoadRuntimeServers(e, t) == LoadPatterns(e, t).servers

\* Readings enough for any load from e (a server is built from one URL
\* variable, with two readings), for use where the values read do not matter.
AnyReadings(e) == [k \in 1..(2 * Len(e)) |-> 0]

\* The number of clock readings a load from e makes: two for each server
\* built.
NumReadings(e) == LoadPatterns(e, AnyReadings(e)).used

\* The readings of a load from e during which the clock stands still at c.
Still(e, c) == [k \in 1..NumReadings(e) |-> c]

\* The sequences of n readings of which the first is c, that never decrease
\* and stay within MaxClock.
RECURSIVE ReadingSeqs(_, _)
ReadingSeqs(c, n) ==
    IF n = 0 THEN {<<>>}
    ELSE IF n = 1 THEN {<<c>>}
    ELSE UNION {{Append(t, r) : r \in t[n - 1]..MaxClock} :
                    t \in ReadingSeqs(c, n - 1)}

\* The readings a load from e can make when the clock is at c.
Readings(c, e) == ReadingSeqs(c, NumReadings(e))

\* The clock after the readings t of a call that found it at c.
ClockAfter(c, t) == IF t = <<>> THEN c ELSE t[Len(t)]

\* What a further utcnow() of the same call can return after the readings t.
NextReadings(c, t) == IF t = <<>> THEN {c} ELSE t[Len(t)]..MaxClock

---------------------------------------------------------------------------
(* The calls made on the registry: requests, patches and identifiers *)

Model1 ==
    [model_name |-> "m1", description |-> None, status |-> ACTIVE, tags |-> <<>>]

\* ModelServerRegistrationRequest values
RequestA ==
    [server_id |-> "a", server_type |-> "vllm", base_url |-> "http://reg-a",
     api_key_required |-> FALSE, models |-> Some(<<Model1>>),
     server_config |-> None, status |-> ACTIVE, tags |-> <<>>]

RequestB ==
    [server_id |-> "b", server_type |-> OPENAI_COMPATIBLE,
     base_url |-> "http://reg-b", api_key_required |-> TRUE,
     models |-> None, server_config |-> Some("cfg"),
     status |-> INACTIVE, tags |-> <<"gpu">>]

Requests == {RequestA, RequestB}

\* ModelServerUpdateRequest values: a field is None when the patch leaves it out.
PatchNone ==
    [base_url |-> None, api_key_required |-> None, models |-> None,
     server_config |-> None, status |-> None, tags |-> None]

PatchUrlStatus ==
    [base_url |-> Some("http://new"), api_key_required |-> None, models |-> None,
     server_config |-> None, status |-> Some(INACTIVE), tags |-> None]

PatchRest ==
    [base_url |-> None, api_key_required |-> Some(TRUE), models |-> Some(<<>>),
     server_config |-> Some("cfg2"), status |-> None, tags |-> Some(<<"x">>)]

Patches == {PatchNone, PatchUrlStatus, PatchRest}

ServerIds == {"a", "b", "default"}

\* The (server_id, request) pairs update_server is called with.
UpdateArgs ==
    ({"a"} \X Patches) \cup {<<"b", PatchUrlStatus>>, <<"default", PatchNone>>}

\* The (server_id, model_name) pairs get_model_on_server is called with.
GetModelArgs == {<<"a", "a">>, <<"a", "m1">>, <<"b", "m1">>}

\* The environment variables the calls on the registry are interleaved with.
EnvUrl == <<"http://env">>

\* A URL that is empty after strip(): the loader skips the variable.
EnvBlank == <<" ">>

SpecEnvValues == {EnvUrl, EnvBlank}

SpecEnvNames == {SERVER_PREFIX \o <<"B", "URL">>}

---------------------------------------------------------------------------
(* os.environ[name] = value and del os.environ[name] *)

EnvIndex(e, name) == CHOOSE i \in 1..Len(e) : e[i][1] = name

EnvSet(e, name, value) ==
    IF EnvHas(e, name)
    THEN [e EXCEPT ![EnvIndex(e, name)] = <<name, value>>]
    ELSE Append(e, <<name, value>>)

EnvDel(e, name) ==
    SubSeq(e, 1, EnvIndex(e, name) - 1) \o SubSeq(e, EnvIndex(e, name) + 1, Len(e))

---------------------------------------------------------------------------
(* ModelService: the pure part of each method *)

\* Mutant of Initialize: loads on every call, whatever self._initialized.
InitializeAlways(rt, init, e, t) ==
    LoadRuntimeServers(e, IF init THEN Still(e, 0) ELSE t)

\* self._runtime_servers after self._initialize()
Initialize(rt, init, e, t) ==
    IF init THEN rt ELSE LoadRuntimeServers(e, t)

\* request.models or []
ModelsOrEmpty(models) ==
    IF models = None THEN <<>> ELSE models[1]

\* The ModelServer register_server builds.
NewServer(request, t) ==
    [server_id |-> request.server_id, server_type |-> request.server_type,
     base_url |-> request.base_url,
     api_key_required |-> request.api_key_required,
     models |-> ModelsOrEmpty(request.models),
     server_config |-> request.server_config,
     status |-> request.status, tags |-> request.tags,
     created_at |-> t, updated_at |-> t]

\* Mutant of RegisterError: the runtime servers are not looked at.
RegisterErrorRegisteredOnly(reg, rt, server_id) ==
    IF server_id \in Keys(reg) THEN "already_exists" ELSE "none"

\* The checks of register_server: which ValueError it raises, if any.
RegisterError(reg, rt, server_id) ==
    IF server_id \in Keys(reg) THEN "already_exists"
    ELSE IF server_id \in Keys(rt) THEN "is_runtime"
    ELSE "none"

\* Mutant of GetServerById: the runtime servers are looked up first.
GetServerByIdRuntimeFirst(reg, rt, server_id) ==
    IF server_id \in Keys(rt) THEN Some(DictGet(rt, server_id))
    ELSE IF server_id \in Keys(reg) THEN Some(DictGet(reg, server_id))
    ELSE None

\* get_server_by_id: the registered server, else the runtime server, else None.
GetServerById(reg, rt, server_id) ==
    IF server_id \in Keys(reg) THEN Some(DictGet(reg, server_id))
    ELSE IF server_id \in Keys(rt) THEN Some(DictGet(rt, server_id))
    ELSE None

\* The first model of the list with that name, else None.
RECURSIVE FindModel(_, _)
FindModel(models, model_name) ==
    IF models = <<>> THEN None
    ELSE IF Head(models).model_name = model_name THEN Some(Head(models))
    ELSE FindModel(Tail(models), model_name)

\* get_model_on_server: (server, model), else None.
GetModelOnServer(reg, rt, server_id, model_name) ==
    LET server == GetServerById(reg, rt, server_id)
    IN  IF server = None THEN None
        ELSE IF FindModel(server[1].models, model_name) = None THEN None
        ELSE Some(<<server[1], FindModel(server[1].models, model_name)[1]>>)

Summary(server) ==
    [server_id |-> server.server_id, server_type |-> server.server_type,
     base_url |-> server.base_url, model_count |-> Len(server.models),
     status |-> server.status, tags |-> server.tags,
     created_at |-> server.created_at]

\* Mutant of RegisteredSummaries: inactive servers are dropped whatever the flag.
RECURSIVE RegisteredSummariesActiveOnly(_, _)
RegisteredSummariesActiveOnly(servers, include_inactive) ==
    IF servers = <<>> THEN <<>>
    ELSE IF Head(servers).status = ACTIVE
         THEN <<Summary(Head(servers))>>
              \o RegisteredSummariesActiveOnly(Tail(servers), include_inactive)
         ELSE RegisteredSummariesActiveOnly(Tail(servers), include_inactive)

\* The summaries of the registered servers the flag lets through.
RECURSIVE RegisteredSummaries(_, _)
RegisteredSummaries(servers, include_inactive) ==
    IF servers = <<>> THEN <<>>
    ELSE IF include_inactive \/ Head(servers).status = ACTIVE
         THEN <<Summary(Head(servers))>>
              \o RegisteredSummaries(Tail(servers), include_inactive)
         ELSE RegisteredSummaries(Tail(servers), include_inactive)

RuntimeSummaries(servers) ==
    [i \in 1..Len(servers) |-> Summary(servers[i])]

\* get_all_servers: the ListModelServersResponse.
GetAllServers(reg, rt, include_inactive) ==
    LET all_summaries == RegisteredSummaries(Values(reg), include_inactive)
                         \o RuntimeSummaries(Values(rt))
    IN  [servers |-> all_summaries,
         total_servers |-> Len(all_summaries),
         runtime_servers |-> RuntimeSummaries(Values(rt))]

\* One field of update_server: assigned when the request gives it.
Patched(old, field) == IF field # None THEN field[1] ELSE old

\* Mutant of ApplyUpdate: "if request.models:" for "if request.models is not None:".
ApplyUpdateTruthy(server, request, t) ==
    [server EXCEPT
        !.base_url = Patched(@, request.base_url),
        !.api_key_required = Patched(@, request.api_key_required),
        !.models = IF request.models # None /\ request.models[1] # <<>>
                   THEN request.models[1] ELSE @,
        !.server_config = IF request.server_config # None
                          THEN request.server_config ELSE @,
        !.status = Patched(@, request.status),
        !.tags = Patched(@, request.tags),
        !.updated_at = t]

\* The server update_server leaves in the registry.
ApplyUpdate(server, request, t) ==
    [server EXCEPT
        !.base_url = Patched(@, request.base_url),
        !.api_key_required = Patched(@, request.api_key_required),
        !.models = Patched(@, request.models),
        !.server_config = IF request.server_config # None
                          THEN request.server_config ELSE @,
        !.status = Patched(@, request.status),
        !.tags = Patched(@, request.tags),
        !.updated_at = t]

\* Mutant of IsRuntime: the check on the runtime servers is left out.
IsRuntimeNever(rt, server_id) == FALSE

\* The checks of update_server and delete_server on a runtime identifier.
IsRuntime(rt, server_id) == server_id \in Keys(rt)

---------------------------------------------------------------------------
(* The state machine *)

\* The threads of control that call register_server without serialization.
Threads == {"t1", "t2"}

\* A thread that is not inside register_server.
NotCalling ==
    [pc |-> "idle", request |-> None, outcome |-> None, ret |-> None,
     overlapped |-> FALSE, inserted |-> 0]

Call(op, id, arg, outcome, ret) ==
    [op |-> op, id |-> id, arg |-> arg, outcome |-> outcome, ret |-> ret]

\* The registry as a call finds it.
Snapshot ==
    [registered |-> registered, runtime |-> runtime,
     initialized |-> initialized, envDirty |-> envDirty, loaded |-> loaded]

\* ModelService.__init__, in a process whose environment names no server.
Init ==
    /\ registered = EmptyDict
    /\ runtime = EmptyDict
    /\ initialized = FALSE
    /\ env = <<>>
    /\ now = 0
    /\ envDirty = FALSE
    /\ loaded = FALSE
    /\ last = Call("init", "", None, "ok", None)
    /\ pre = [registered |-> EmptyDict, runtime |-> EmptyDict,
              initialized |-> FALSE, envDirty |-> FALSE, loaded |-> FALSE]
    /\ inflight = [t \in Threads |-> NotCalling]

\* The environment a call loads from: none once self._initialized is set.
LoadedEnv == IF initialized THEN <<>> ELSE env

\* self._initialize() as the first statement of a method, the clock
\* readings of its load being t.
DoInitialize(t) ==
    /\ runtime' = Initialize(runtime, initialized, env, t)
    /\ initialized' = TRUE
    /\ envDirty' = (initialized /\ envDirty)
    /\ loaded' = TRUE

register_server(request) ==
    \E t \in Readings(now, LoadedEnv) :
        LET err == RegisterError(registered, runtime', request.server_id)
        IN  /\ DoInitialize(t)
            /\ IF err # "none"
               THEN /\ registered' = registered
                    /\ now' = ClockAfter(now, t)
                    /\ last' = Call("register", request.server_id, request,
                                    "raise", err)
               ELSE \E r \in NextReadings(now, t) :
                    /\ registered' = DictSet(registered, request.server_id,
                                         NewServer(request, r))
                    /\ now' = r
                    /\ last' = Call("register", request.server_id, request, "ok",
                                    NewServer(request, r))
            /\ pre' = Snapshot
            /\ UNCHANGED <<inflight, env>>

get_server_by_id(server_id) ==
    \E t \in Readings(now, LoadedEnv) :
        /\ DoInitialize(t)
        /\ now' = ClockAfter(now, t)
        /\ last' = Call("get_server", server_id, None, "ok",
                        GetServerById(registered, runtime', server_id))
        /\ pre' = Snapshot
        /\ UNCHANGED <<inflight, registered, env>>

get_model_on_server(server_id, model_name) ==
    \E t \in Readings(now, LoadedEnv) :
        /\ DoInitialize(t)
        /\ now' = ClockAfter(now, t)
        /\ last' = Call("get_model", server_id, model_name, "ok",
                        GetModelOnServer(registered, runtime', server_id, model_name))
        /\ pre' = Snapshot
        /\ UNCHANGED <<inflight, registered, env>>

get_all_servers(include_inactive) ==
    \E t \in Readings(now, LoadedEnv) :
        /\ DoInitialize(t)
        /\ now' = ClockAfter(now, t)
        /\ last' = Call("list", "", include_inactive, "ok",
                        GetAllServers(registered, runtime', include_inactive))
        /\ pre' = Snapshot
        /\ UNCHANGED <<inflight, registered, env>>

update_server(server_id, request) ==
    \E t \in Readings(now, LoadedEnv) :
        /\ DoInitialize(t)
        /\ IF IsRuntime(runtime', server_id)
           THEN /\ registered' = registered
                /\ now' = ClockAfter(now, t)
                /\ last' = Call("update", server_id, request, "raise",
                                "cannot_update_runtime")
           ELSE IF server_id \notin Keys(registered)
           THEN /\ registered' = registered
                /\ now' = ClockAfter(now, t)
                /\ last' = Call("update", server_id, request, "ok", None)
           ELSE \E r \in NextReadings(now, t) :
                /\ registered' = DictSet(registered, server_id,
                        ApplyUpdate(DictGet(registered, server_id), request, r))
                /\ now' = r
                /\ last' = Call("update", server_id, request, "ok",
                        Some(ApplyUpdate(DictGet(registered, server_id), request,
                                         r)))
        /\ pre' = Snapshot
        /\ UNCHANGED <<inflight, env>>

delete_server(server_id) ==
    \E t \in Readings(now, LoadedEnv) :
        /\ DoInitialize(t)
        /\ now' = ClockAfter(now, t)
        /\ IF IsRuntime(runtime', server_id)
           THEN /\ registered' = registered
                /\ last' = Call("delete", server_id, None, "raise",
                                "cannot_delete_runtime")
           ELSE IF server_id \in Keys(registered)
           THEN /\ registered' = DictDel(registered, server_id)
                /\ last' = Call("delete", server_id, None, "ok", TRUE)
           ELSE /\ registered' = registered
                /\ last' = Call("delete", server_id, None, "ok", FALSE)
        /\ pre' = Snapshot
        /\ UNCHANGED <<inflight, env>>

\* Mutant of reload_runtime_servers: clear() without the load that follows.
reload_clear_only ==
    /\ runtime' = EmptyDict
    /\ envDirty' = FALSE
    /\ loaded' = TRUE
    /\ last' = Call("reload", "", None, "ok", None)
    /\ pre' = Snapshot
    /\ UNCHANGED <<inflight, registered, initialized, env, now>>

\* Mutant of reload_runtime_servers: both dicts are cleared before the load.
reload_clear_both ==
    \E t \in Readings(now, env) :
        /\ runtime' = LoadRuntimeServers(env, t)
        /\ now' = ClockAfter(now, t)
        /\ registered' = EmptyDict
        /\ envDirty' = FALSE
        /\ loaded' = TRUE
        /\ last' = Call("reload", "", None, "ok", None)
        /\ pre' = Snapshot
        /\ UNCHANGED <<inflight, initialized, env>>

\* clear() and _load_runtime_servers(); self._initialized is not assigned.
reload_runtime_servers ==
    \E t \in Readings(now, env) :
        /\ runtime' = LoadRuntimeServers(env, t)
        /\ now' = ClockAfter(now, t)
        /\ envDirty' = FALSE
        /\ loaded' = TRUE
        /\ last' = Call("reload", "", None, "ok", None)
        /\ pre' = Snapshot
        /\ UNCHANGED <<inflight, registered, initialized, env>>

\* The process assigns an environment variable between two calls.
setenv(name, value) ==
    /\ EnvSet(env, name, value) # env
    /\ env' = EnvSet(env, name, value)
    /\ envDirty' = TRUE
    /\ last' = Call("setenv", "", None, "ok", None)
    /\ pre' = Snapshot
    /\ UNCHANGED <<inflight, registered, runtime, initialized, now, loaded>>

\* The process deletes an environment variable between two calls.
unsetenv(name) ==
    /\ EnvHas(env, name)
    /\ env' = EnvDel(env, name)
    /\ envDirty' = TRUE
    /\ last' = Call("unsetenv", "", None, "ok", None)
    /\ pre' = Snapshot
    /\ UNCHANGED <<inflight, registered, runtime, initialized, now, loaded>>

\* Time passes between two calls.
Tick ==
    /\ now < MaxClock
    /\ now' = now + 1
    /\ last' = Call("tick", "", None, "ok", None)
    /\ pre' = Snapshot
    /\ UNCHANGED <<inflight, registered, runtime, initialized, env, envDirty, loaded>>

Next ==
    \/ \E request \in Requests : register_server(request)
    \/ \E server_id \in ServerIds : get_server_by_id(server_id)
    \/ \E args \in GetModelArgs : get_model_on_server(args[1], args[2])
    \/ \E include_inactive \in BOOLEAN : get_all_servers(include_inactive)
    \/ \E args \in UpdateArgs : update_server(args[1], args[2])
    \/ \E server_id \in ServerIds : delete_server(server_id)
    \/ reload_runtime_servers
    \/ \E name \in SpecEnvNames, value \in SpecEnvValues : setenv(name, value)
    \/ \E name \in SpecEnvNames : unsetenv(name)
    \/ Tick

Spec == Init /\ [][Next]_vars

---------------------------------------------------------------------------
(* The loader on its own: a fresh registry in a process whose environment  *)
(* names servers, and reload_runtime_servers as the call that runs         *)
(* _load_runtime_servers on it.                                            *)

\* The variables the environment is made of, one <<name, value>> each.
LoaderVars ==
    { <<MODEL_SERVER_URL, <<"http://simple">>>>,
      <<MODEL_SERVER_ID, <<"b">>>>,
      <<MODEL_SERVER_TYPE, <<"VLLM">>>>,
      <<MODEL_SERVER_MODELS, <<" ", ",">>>>,
      <<SERVER_PREFIX \o <<"DEFAULT", "URL">>, <<" ", "http://ns-default">>>>,
      <<SERVER_PREFIX \o <<"DEFAULT", "URL">>, <<" ">>>>,
      <<SERVER_PREFIX \o <<"DEFAULT", "MODELS">>, <<"m1", ",", " ", "m2">>>>,
      <<SERVER_PREFIX \o <<"DEFAULT", "TYPE">>, <<"Bogus">>>>,
      <<SERVER_PREFIX \o <<"B", "URL">>, <<"http://ns-b">>>>,
      <<SERVER_PREFIX \o <<"B", "ID">>, <<"default">>>>,
      <<LEGACY_PREFIX \o <<"B", "URL">>, <<"http://legacy-b">>>>,
      <<LEGACY_PREFIX \o <<"B", "URL">>, <<" ", " ">>>>,
      <<LEGACY_PREFIX \o <<"B", "ID">>, <<"default">>>>,
      <<LEGACY_PREFIX \o <<"DEFAULT", "URL">>, <<"http://legacy-default">>>> }

\* The names the loader looks up with os.getenv, in one fixed order.
LookedUp ==
    << MODEL_SERVER_ID, MODEL_SERVER_TYPE, MODEL_SERVER_MODELS,
       SERVER_PREFIX \o <<"DEFAULT", "MODELS">>,
       SERVER_PREFIX \o <<"DEFAULT", "TYPE">>,
       SERVER_PREFIX \o <<"B", "ID">>,
       LEGACY_PREFIX \o <<"B", "ID">> >>

\* The position of name in LookedUp, 0 for a name that is not in it (the
\* ..._URL names, which the code meets in iteration order).
LookupRank(name) ==
    IF \E k \in 1..Len(LookedUp) : LookedUp[k] = name
    THEN CHOOSE k \in 1..Len(LookedUp) : LookedUp[k] = name
    ELSE 0

\* os.environ of the process: at most MaxEnvLen of these variables, under
\* distinct names.  The ..._URL variables come in any iteration order; the
\* variables that are only looked up by name, whose place in the iteration
\* no statement of the loader depends on, follow them in the order of
\* LookedUp.
LoaderEnvs ==
    { e \in UNION {[1..n -> LoaderVars] : n \in 0..MaxEnvLen} :
        /\ \A i, j \in 1..Len(e) : e[i][1] = e[j][1] => i = j
        /\ \A i, j \in 1..Len(e) :
              (i < j /\ LookupRank(e[i][1]) > 0)
                  => LookupRank(e[i][1]) < LookupRank(e[j][1]) }

\* ModelService.__init__ in such a process.
InitLoader ==
    /\ registered = EmptyDict
    /\ runtime = EmptyDict
    /\ initialized = FALSE
    /\ env \in LoaderEnvs
    /\ now = 0
    /\ envDirty = FALSE
    /\ loaded = FALSE
    /\ last = Call("init", "", None, "ok", None)
    /\ pre = [registered |-> EmptyDict, runtime |-> EmptyDict,
              initialized |-> FALSE, envDirty |-> FALSE, loaded |-> FALSE]
    /\ inflight = [t \in Threads |-> NotCalling]

\* One load in each behaviour, on the service as __init__ left it.
NextLoader == ~loaded /\ reload_runtime_servers

SpecLoader == InitLoader /\ [][NextLoader]_vars

---------------------------------------------------------------------------
(* eval_hub.services.response_builder.ResponseBuilder: the status          *)
(* aggregation engine.  A status tally (dict EvaluationStatus -> int) is a *)
(* function from the statuses that occur to their counts.                  *)

EvaluationStatuses == {"pending", "running", "completed", "failed", "cancelled"}

\* An EvaluationResult: its identity and its lifecycle status.
EvaluationResult(evaluation_id, status) ==
    [evaluation_id |-> evaluation_id, status |-> status]

\* An EvaluationRequest: its identity and the number of evaluations it defines.
EvaluationRequest(request_id, total_evaluations) ==
    [request_id |-> request_id, total_evaluations |-> total_evaluations]

\* Mutant of CountResultsByStatus: every status is a key, absent ones with 0.
CountResultsByStatusAllKeys(results) ==
    [status \in EvaluationStatuses |->
        Cardinality({i \in 1..Len(results) : results[i].status = status})]

\* Step 1, the tally: the number of results of each status that occurs.
CountResultsByStatus(results) ==
    [status \in {results[i].status : i \in 1..Len(results)} |->
        Cardinality({i \in 1..Len(results) : results[i].status = status})]

\* status_counts.get(status, 0)
TallyGet(status_counts, status) ==
    IF status \in DOMAIN status_counts THEN status_counts[status] ELSE 0

\* test_determine_overall_status_all_failed: the tally holds failed results
\* only, as many as are expected.  The test asserts failed for it.
AllFailed(status_counts, total_evaluations) ==
    /\ DOMAIN status_counts = {"failed"}
    /\ status_counts["failed"] = total_evaluations

\* Mutant of DetermineOverallStatus: rule 3 is tried before rule 2.
DetermineOverallStatusPendingFirst(status_counts, total_evaluations) ==
    IF total_evaluations = 0 THEN "pending"
    ELSE IF TallyGet(status_counts, "pending") > 0 THEN "pending"
    ELSE IF TallyGet(status_counts, "running") > 0 THEN "running"
    ELSE IF AllFailed(status_counts, total_evaluations) THEN "failed"
    ELSE "completed"

\* Mutant of DetermineOverallStatus: rule 3 is left out.
DetermineOverallStatusNoPending(status_counts, total_evaluations) ==
    IF total_evaluations = 0 THEN "pending"
    ELSE IF TallyGet(status_counts, "running") > 0 THEN "running"
    ELSE IF AllFailed(status_counts, total_evaluations) THEN "failed"
    ELSE "completed"

\* Mutant of DetermineOverallStatus: rule 1 is tried after rule 2.
DetermineOverallStatusRunningFirst(status_counts, total_evaluations) ==
    IF TallyGet(status_counts, "running") > 0 THEN "running"
    ELSE IF total_evaluations = 0 THEN "pending"
    ELSE IF TallyGet(status_counts, "pending") > 0 THEN "pending"
    ELSE IF AllFailed(status_counts, total_evaluations) THEN "failed"
    ELSE "completed"

\* Mutant of DetermineOverallStatus: the all-failed case is left out.
DetermineOverallStatusNoFailed(status_counts, total_evaluations) ==
    IF total_evaluations = 0 THEN "pending"
    ELSE IF TallyGet(status_counts, "running") > 0 THEN "running"
    ELSE IF TallyGet(status_counts, "pending") > 0 THEN "pending"
    ELSE "completed"

\* Step 2, the overall status: the ordered rules 1 to 4 of the
\* specification, the first match wins, and ahead of rule 4 the one case in
\* which the repository's tests give another status than rule 4.
DetermineOverallStatus(status_counts, total_evaluations) ==
    IF total_evaluations = 0 THEN "pending"
    ELSE IF TallyGet(status_counts, "running") > 0 THEN "running"
    ELSE IF TallyGet(status_counts, "pending") > 0 THEN "pending"
    ELSE IF AllFailed(status_counts, total_evaluations) THEN "failed"
    ELSE "completed"

\* Mutant of BuildResponse: the results are returned newest first.
BuildResponseReversed(request, results, experiment_url) ==
    [request_id |-> request.request_id,
     status |-> DetermineOverallStatus(CountResultsByStatus(results),
                                       request.total_evaluations),
     total_evaluations |-> request.total_evaluations,
     results |-> [i \in 1..Len(results) |-> results[Len(results) + 1 - i]],
     experiment_url |-> experiment_url]

\* Step 3, the response: the results as given, the overall status derived
\* from their tally, the total count and the tracking URL passed through.
BuildResponse(request, results, experiment_url) ==
    [request_id |-> request.request_id,
     status |-> DetermineOverallStatus(CountResultsByStatus(results),
                                       request.total_evaluations),
     total_evaluations |-> request.total_evaluations,
     results |-> results,
     experiment_url |-> experiment_url]

\* The result sequences the engine is called with: at most MaxResults
\* results of distinct identity, of any status, in any order.
ResultSeqs ==
    { r \in UNION {[1..n -> {EvaluationResult(id, status) :
                                id \in 1..MaxResults,
                                status \in EvaluationStatuses}] :
                    n \in 0..MaxResults} :
        \A i, j \in 1..Len(r) : r[i].evaluation_id = r[j].evaluation_id => i = j }

\* The tallies _determine_overall_status is called with.
Tallies ==
    UNION {[statuses -> 1..MaxResults] : statuses \in SUBSET EvaluationStatuses}

\* The requests build_response is called with.
EvaluationRequests ==
    {EvaluationRequest("r1", total) : total \in 0..MaxResults}

ExperimentUrl == "http://mlflow/experiments/1"

\* The engine keeps no state from one call to the next: a behaviour of
\* SpecStatus is one call of one of its methods.
NoCallYet == last.op = "init"

count_results_by_status(results) ==
    /\ last' = Call("count_results_by_status", "", results, "ok",
                    CountResultsByStatus(results))
    /\ UNCHANGED <<inflight, registered, runtime, initialized, env, now, envDirty,
                   loaded, pre>>

determine_overall_status(status_counts, total_evaluations) ==
    /\ last' = Call("determine_overall_status", "",
                    [status_counts |-> status_counts,
                     total_evaluations |-> total_evaluations],
                    "ok",
                    DetermineOverallStatus(status_counts, total_evaluations))
    /\ UNCHANGED <<inflight, registered, runtime, initialized, env, now, envDirty,
                   loaded, pre>>

build_response(request, results, experiment_url) ==
    /\ last' = Call("build_response", "",
                    [request |-> request, results |-> results,
                     experiment_url |-> experiment_url],
                    "ok",
                    BuildResponse(request, results, experiment_url))
    /\ UNCHANGED <<inflight, registered, runtime, initialized, env, now, envDirty,
                   loaded, pre>>

NextStatus ==
    \/ /\ NoCallYet
       /\ \E results \in ResultSeqs : count_results_by_status(results)
    \/ /\ NoCallYet
       /\ \E status_counts \in Tallies, total_evaluations \in 0..MaxResults :
            determine_overall_status(status_counts, total_evaluations)
    \/ /\ NoCallYet
       /\ \E request \in EvaluationRequests, results \in ResultSeqs :
            build_response(request, results, ExperimentUrl)

SpecStatus == Init /\ [][NextStatus]_vars

---------------------------------------------------------------------------
(* register_server called from several threads without serialization: a    *)
(* thread can be suspended between the collision check and the insert.     *)

\* A second registration request for the identifier of RequestA.
RequestA2 == [RequestA EXCEPT !.base_url = "http://reg-a2"]

RaceRequests == {RequestA, RequestA2, RequestB}

\* self._initialize() and the two membership tests.  A call overlaps
\* another when one of them makes its tests while the other is between its
\* tests and its insert.
register_check(t, request) ==
    \E readings \in Readings(now, LoadedEnv) :
        LET err == RegisterError(registered, runtime', request.server_id)
            overlaps == \E u \in Threads \ {t} :
                            inflight[u].pc \in {"checked", "built"}
        IN  /\ inflight[t].pc = "idle"
            /\ DoInitialize(readings)
            /\ now' = ClockAfter(now, readings)
            /\ inflight' =
                  [u \in Threads |->
                     IF u = t
                     THEN [pc |-> IF err # "none" THEN "done" ELSE "checked",
                           request |-> Some(request),
                           outcome |-> IF err # "none" THEN Some("raise") ELSE None,
                           ret |-> IF err # "none" THEN Some(err) ELSE None,
                           overlapped |-> overlaps,
                           inserted |-> 0]
                     ELSE IF inflight[u].pc \in {"checked", "built"}
                     THEN [inflight[u] EXCEPT !.overlapped = TRUE]
                     ELSE inflight[u]]
            /\ UNCHANGED <<registered, env, last, pre>>

\* now = utcnow() and the ModelServer built from the request with it.
register_build(t) ==
    /\ inflight[t].pc = "checked"
    /\ inflight' =
          [inflight EXCEPT ![t] =
             [@ EXCEPT !.pc = "built",
                       !.ret = Some(NewServer(inflight[t].request[1], now))]]
    /\ UNCHANGED <<registered, runtime, initialized, env, now, envDirty,
                   loaded, last, pre>>

\* Mutant of register_insert: an entry already present is kept.
register_insert_keep_first(t) ==
    LET server == inflight[t].ret[1]
    IN  /\ inflight[t].pc = "built"
        /\ registered' = IF server.server_id \in Keys(registered)
                         THEN registered
                         ELSE DictSet(registered, server.server_id, server)
        /\ inflight' =
              [inflight EXCEPT ![t] =
                 [@ EXCEPT !.pc = "done", !.outcome = Some("ok"),
                           !.inserted = 1 + Cardinality(
                               {u \in Threads : inflight[u].inserted > 0})]]
        /\ UNCHANGED <<runtime, initialized, env, now, envDirty, loaded,
                       last, pre>>

\* self._registered_servers[request.server_id] = server, and the return of
\* the server.  inserted numbers the inserts in the order they are made.
register_insert(t) ==
    LET server == inflight[t].ret[1]
    IN  /\ inflight[t].pc = "built"
        /\ registered' = DictSet(registered, server.server_id, server)
        /\ inflight' =
              [inflight EXCEPT ![t] =
                 [@ EXCEPT !.pc = "done", !.outcome = Some("ok"),
                           !.inserted = 1 + Cardinality(
                               {u \in Threads : inflight[u].inserted > 0})]]
        /\ UNCHANGED <<runtime, initialized, env, now, envDirty, loaded,
                       last, pre>>

NextRace ==
    \/ \E t \in Threads, request \in RaceRequests : register_check(t, request)
    \/ \E t \in Threads : register_build(t)
    \/ \E t \in Threads : register_insert(t)
    \/ Tick

SpecRace == Init /\ [][NextRace]_vars

---------------------------------------------------------------------------
(* Properties.  last is the call just made, pre the registry as that call  *)
(* found it, and the unprimed variables the registry as the call left it.  *)

\* A server with its timestamps blanked.
Untimed(server) == [server EXCEPT !.created_at = 0, !.updated_at = 0]

\* A dict with the timestamps of its servers blanked.
StripTimes(d) ==
    [i \in 1..Len(d) |-> [key |-> d[i].key, value |-> Untimed(d[i].value)]]

\* The entries of d other than the one of key k, in order.
Others(d, k) == SelectSeq(d, LAMBDA entry : entry.key # k)

\* C1: after any sequence of register, update, delete and reload_runtime
\* calls, with the environment changing between calls, no server identifier
\* is a key of both the registered mapping and the runtime mapping.
C1_NoSharedIdentifier == Keys(registered) \cap Keys(runtime) = {}

\* C2, as stated: a register whose identifier is already a key of the
\* registered or of the runtime mapping fails with a collision error and
\* leaves both mappings as they were before the call.
C2_Original ==
    (last.op = "register"
        /\ last.id \in Keys(pre.registered) \cup Keys(pre.runtime))
    => /\ last.outcome = "raise"
       /\ registered = pre.registered
       /\ runtime = pre.runtime

\* C2, amended: on a registry that an earlier call has initialized, a
\* register whose identifier is already a key of the registered or of the
\* runtime mapping fails with a collision error and leaves both mappings as
\* they were before the call.
C2_CollisionWhenInitialized ==
    (last.op = "register"
        /\ pre.initialized
        /\ last.id \in Keys(pre.registered) \cup Keys(pre.runtime))
    => /\ last.outcome = "raise"
       /\ last.ret \in {"already_exists", "is_runtime"}
       /\ registered = pre.registered
       /\ runtime = pre.runtime

C2_Witness ==
    /\ last.op = "register"
    /\ pre.initialized
    /\ last.id \in Keys(pre.runtime)
    /\ last.id \notin Keys(pre.registered)
    /\ last.ret = "is_runtime"

\* C3, as stated: update and delete on an identifier that is in the runtime
\* mapping always fail with an immutability error, and the runtime entry of
\* that identifier is unchanged by the call.
C3_Original ==
    (last.op \in {"update", "delete"} /\ last.id \in Keys(pre.runtime))
    => /\ last.outcome = "raise"
       /\ last.id \in Keys(runtime)
       /\ DictGet(runtime, last.id) = DictGet(pre.runtime, last.id)

\* C3, amended: on a registry that an earlier call has initialized, update
\* and delete on an identifier that is in the runtime mapping fail with an
\* immutability error, and the runtime entry of that identifier (and the
\* registered mapping) is unchanged by the call.
C3_ImmutableWhenInitialized ==
    (last.op \in {"update", "delete"}
        /\ pre.initialized
        /\ last.id \in Keys(pre.runtime))
    => /\ last.outcome = "raise"
       /\ last.ret = (IF last.op = "update" THEN "cannot_update_runtime"
                      ELSE "cannot_delete_runtime")
       /\ last.id \in Keys(runtime)
       /\ DictGet(runtime, last.id) = DictGet(pre.runtime, last.id)
       /\ registered = pre.registered

C3_Witness ==
    /\ last.op = "update"
    /\ pre.initialized
    /\ last.id \in Keys(pre.runtime)
    /\ last.id \in Keys(pre.registered)
    /\ last.arg # PatchNone
    /\ last.outcome = "raise"

\* C4, as stated: reload_runtime with the environment unchanged since the
\* last load gives a runtime mapping identical to the one before the call,
\* creation and update timestamps included.
C4_Original ==
    (last.op = "reload" /\ pre.loaded /\ ~pre.envDirty)
    => runtime = pre.runtime

\* C4, amended: reload_runtime with the environment unchanged since the last
\* load gives a runtime mapping with the same identifiers in the same order
\* and, for each identifier, the same descriptor except for its creation and
\* update timestamps, which are read from the clock during the reload: they
\* are not earlier than those of the descriptor before the reload, the
\* creation time not later than the update time.
C4_ReloadSameButTimestamps ==
    (last.op = "reload" /\ pre.loaded /\ ~pre.envDirty)
    => /\ StripTimes(runtime) = StripTimes(pre.runtime)
       /\ \A i \in 1..Len(runtime) :
             /\ pre.runtime[i].value.updated_at <= runtime[i].value.created_at
             /\ runtime[i].value.created_at <= runtime[i].value.updated_at
             /\ runtime[i].value.updated_at <= now

C4_Witness ==
    /\ last.op = "reload"
    /\ pre.loaded
    /\ ~pre.envDirty
    /\ Len(pre.runtime) = 1
    /\ runtime # pre.runtime
    /\ runtime[1].value.created_at < runtime[1].value.updated_at

\* C5, as stated: once the runtime mapping has been loaded, by the first
\* operation on the registry or by reload_runtime, no operation other than
\* reload_runtime changes it, even when the environment has changed.
C5_Original ==
    (pre.loaded /\ last.op # "reload") => runtime = pre.runtime

\* C5, amended: once the registry has been initialized by a first operation
\* other than reload_runtime, no operation other than reload_runtime changes
\* the runtime mapping, even when the environment has changed since the
\* load.
C5_RuntimeFixedOnceInitialized ==
    (pre.initialized /\ last.op # "reload") => runtime = pre.runtime

C5_Witness ==
    /\ pre.initialized
    /\ pre.envDirty
    /\ last.op \in {"register", "get_server", "get_model", "list", "update", "delete"}
    /\ StripTimes(LoadRuntimeServers(env, Still(env, now))) # StripTimes(runtime)

\* C6: get_server returns the registered descriptor when the identifier is
\* in the registered mapping, otherwise the runtime descriptor when it is in
\* the runtime mapping, otherwise not-found; a successful register stores
\* the descriptor it returns, and an entry leaves the registered mapping
\* only by a delete of its identifier.
C6_GetServer ==
    /\ last.op = "get_server" =>
          last.ret = (IF \E i \in 1..Len(registered) : registered[i].key = last.id
                      THEN Some(DictGet(registered, last.id))
                      ELSE IF \E i \in 1..Len(runtime) : runtime[i].key = last.id
                      THEN Some(DictGet(runtime, last.id))
                      ELSE None)
    /\ (last.op = "register" /\ last.outcome = "ok") =>
          /\ last.id \in Keys(registered)
          /\ DictGet(registered, last.id) = last.ret
    /\ \A id \in Keys(pre.registered) \ Keys(registered) :
          last.op = "delete" /\ last.id = id

C6_Witness ==
    /\ last.op = "get_server"
    /\ last.id \in Keys(registered)
    /\ last.id \in Keys(runtime)
    /\ last.ret = Some(DictGet(registered, last.id))
    /\ DictGet(registered, last.id).updated_at # DictGet(registered, last.id).created_at

\* C7: reload_runtime leaves the registered mapping unchanged, whatever the
\* environment contains.
C7_ReloadKeepsRegistered ==
    last.op = "reload" => registered = pre.registered

C7_Witness ==
    /\ last.op = "reload"
    /\ Len(registered) = 2
    /\ pre.envDirty
    /\ Keys(runtime) \cap Keys(registered) # {}
    /\ Keys(pre.runtime) \cap Keys(registered) = {}

\* The fields of a ModelServer that update_server can assign from a patch.
PatchFields ==
    {"base_url", "api_key_required", "models", "status", "tags"}

\* C8: a successful update sets exactly the fields present in the patch and
\* the update timestamp: every field absent from the patch keeps its value,
\* the identifier, server type and creation timestamp are never changed,
\* every other registered entry and the runtime mapping are unchanged.
C8_UpdateFrame ==
    (last.op = "update" /\ last.outcome = "ok" /\ last.ret # None)
    => /\ last.id \in Keys(pre.registered)
       /\ KeySeq(registered) = KeySeq(pre.registered)
       /\ LET old == DictGet(pre.registered, last.id)
              new == DictGet(registered, last.id)
          IN  /\ \A f \in PatchFields :
                    new[f] = (IF last.arg[f] = None THEN old[f] ELSE last.arg[f][1])
              /\ new.server_config = (IF last.arg.server_config = None
                                      THEN old.server_config
                                      ELSE last.arg.server_config)
              /\ new.server_id = old.server_id
              /\ new.server_type = old.server_type
              /\ new.created_at = old.created_at
              /\ new.updated_at = now
              /\ last.ret = Some(new)
       /\ Others(registered, last.id) = Others(pre.registered, last.id)
       /\ runtime = pre.runtime

C8_Witness ==
    /\ last.op = "update"
    /\ last.outcome = "ok"
    /\ last.arg = PatchRest
    /\ Len(registered) = 2
    /\ runtime # <<>>
    /\ DictGet(pre.registered, last.id).models # <<>>
    /\ DictGet(registered, last.id).models = <<>>
    /\ DictGet(registered, last.id).base_url = "http://new"
    /\ DictGet(registered, last.id).updated_at # DictGet(registered, last.id).created_at

\* C9, as stated: delete of an identifier not in the runtime mapping returns
\* true exactly when the identifier was in the registered mapping before the
\* call, and the identifier is not in it after the call; when it returns
\* false both mappings are unchanged, and all other entries are unchanged in
\* either case.
C9_Original ==
    (last.op = "delete" /\ last.id \notin Keys(pre.runtime))
    => /\ last.outcome = "ok"
       /\ last.ret = (last.id \in Keys(pre.registered))
       /\ last.id \notin Keys(registered)
       /\ Others(registered, last.id) = Others(pre.registered, last.id)
       /\ last.ret = FALSE => (registered = pre.registered /\ runtime = pre.runtime)
       /\ Others(runtime, last.id) = Others(pre.runtime, last.id)

\* C9, amended: on a registry that an earlier call has initialized, delete
\* of an identifier not in the runtime mapping returns true exactly when the
\* identifier was in the registered mapping before the call, and the
\* identifier is not in it after the call; when it returns false both
\* mappings are unchanged, and all other entries are unchanged in either
\* case.
C9_DeleteWhenInitialized ==
    (last.op = "delete" /\ pre.initialized /\ last.id \notin Keys(pre.runtime))
    => /\ last.outcome = "ok"
       /\ last.ret = (last.id \in Keys(pre.registered))
       /\ last.id \notin Keys(registered)
       /\ Others(registered, last.id) = Others(pre.registered, last.id)
       /\ last.ret = FALSE => (registered = pre.registered /\ runtime = pre.runtime)
       /\ runtime = pre.runtime

C9_Witness ==
    /\ last.op = "delete"
    /\ pre.initialized
    /\ last.id \notin Keys(pre.runtime)
    /\ last.ret = TRUE
    /\ Len(pre.registered) = 2
    /\ pre.registered[2].key = last.id
    /\ pre.runtime # <<>>

\* The registered servers list_servers lets through, in order.
Listed(include_inactive) ==
    SelectSeq(Values(registered),
              LAMBDA server : include_inactive \/ server.status = ACTIVE)

\* C10: list_servers returns the registered servers (only the active ones
\* when include_inactive is false, all of them when it is true) followed by
\* every runtime server whatever the flag; the runtime echo holds exactly
\* the runtime servers, and the total count is the length of the combined
\* list.
C10_ListServers ==
    last.op = "list"
    => LET regs == Listed(last.arg)
           n == Len(regs)
       IN  /\ Len(last.ret.servers) = n + Len(runtime)
           /\ \A i \in 1..n : last.ret.servers[i] = Summary(regs[i])
           /\ \A i \in 1..Len(runtime) :
                 /\ last.ret.servers[n + i] = Summary(runtime[i].value)
                 /\ last.ret.runtime_servers[i] = Summary(runtime[i].value)
           /\ Len(last.ret.runtime_servers) = Len(runtime)
           /\ last.ret.total_servers = Len(last.ret.servers)

C10_Witness ==
    /\ last.op = "list"
    /\ last.arg = FALSE
    /\ Len(registered) = 2
    /\ Len(runtime) = 1
    /\ Len(last.ret.servers) = 2
    /\ last.ret.total_servers = 2

---------------------------------------------------------------------------
(* The loader: properties of the dict a load leaves in runtime, checked    *)
(* under SpecLoader.                                                       *)

\* The entry the simple pattern produces from the environment, as a dict.
SimpleProduced == StripTimes(LoadSimple(env, Still(env, now)).servers)

\* The entry the namespaced variable at position i of the environment
\* produces, as a dict (empty when the variable produces none).
NamespacedProduced(i) ==
    StripTimes(NamespacedEntry(env, env[i][1], env[i][2], NoServers,
                               Still(env, now)).servers)

\* C11: when the simple pattern (MODEL_SERVER_URL with MODEL_SERVER_ID) and
\* a namespaced EVAL_HUB_MODEL_SERVER_<SERVER_ID>_URL variable produce the
\* same identifier, the loaded entry of that identifier is the one of the
\* namespaced variable (the last such variable, when several produce it):
\* its base URL, type and models, never those of the simple pattern.
C11_NamespacedOverSimple ==
    (last.op = "reload" /\ SimpleProduced # EmptyDict) =>
        \A i \in 1..Len(env) :
            ( /\ NamespacedProduced(i) # EmptyDict
              /\ NamespacedProduced(i)[1].key = SimpleProduced[1].key
              /\ \A j \in (i + 1)..Len(env) :
                    NamespacedProduced(j) # EmptyDict =>
                        NamespacedProduced(j)[1].key # SimpleProduced[1].key )
            => /\ SimpleProduced[1].key \in Keys(runtime)
               /\ Untimed(DictGet(runtime, SimpleProduced[1].key))
                      = NamespacedProduced(i)[1].value

\* C12: the legacy pattern never replaces an entry: every identifier the
\* simple or the namespaced pattern produced is loaded with the entry those
\* patterns produced, whatever legacy variables (_ID overrides included)
\* the environment holds.
C12_LegacyNeverReplaces ==
    last.op = "reload" =>
        LET produced == LoadNamespaced(env, 1, LoadSimple(env, Still(env, now)),
                                       Still(env, now)).servers
        IN  \A k \in Keys(produced) :
                /\ k \in Keys(runtime)
                /\ Untimed(DictGet(runtime, k)) = Untimed(DictGet(produced, k))

---------------------------------------------------------------------------
(* The status aggregation engine: properties of one call, checked under    *)
(* SpecStatus.  last is the call: its arguments and what it returned.      *)

\* The call derives an overall status: _determine_overall_status on a tally,
\* or build_response on a result sequence.
StatusCall == last.op \in {"determine_overall_status", "build_response"}

\* The number of results of the given status the call was made with.
Occurrences(status) ==
    CASE last.op = "determine_overall_status" ->
            IF status \in DOMAIN last.arg.status_counts
            THEN last.arg.status_counts[status] ELSE 0
      [] last.op = "build_response" ->
            Cardinality({i \in 1..Len(last.arg.results) :
                            last.arg.results[i].status = status})

\* The expected total of evaluations the call was made with.
ExpectedTotal ==
    CASE last.op = "determine_overall_status" -> last.arg.total_evaluations
      [] last.op = "build_response" -> last.arg.request.total_evaluations

\* The overall status the call derived.
Overall ==
    CASE last.op = "determine_overall_status" -> last.ret
      [] last.op = "build_response" -> last.ret.status

\* C13, as stated: for every non-empty tally with at least one running
\* result the overall status is running, whatever else the tally holds.
C13_Original ==
    (StatusCall /\ Occurrences("running") > 0) => Overall = "running"

\* C13, amended: for every tally with at least one running result and a
\* non-zero expected total the overall status is running, whatever other
\* statuses are present; with an expected total of zero it is pending.
C13_RunningWhenTotalNonZero ==
    (StatusCall /\ Occurrences("running") > 0) =>
        Overall = (IF ExpectedTotal # 0 THEN "running" ELSE "pending")

C13_Witness ==
    /\ StatusCall
    /\ ExpectedTotal # 0
    /\ Occurrences("running") > 0
    /\ Occurrences("pending") > 0
    /\ Occurrences("failed") > 0
    /\ Overall = "running"

\* C14: for every non-empty tally with no running result and at least one
\* pending result the overall status is pending.
C14_PendingWithoutRunning ==
    (StatusCall /\ Occurrences("running") = 0 /\ Occurrences("pending") > 0)
        => Overall = "pending"

C14_Witness ==
    /\ StatusCall
    /\ ExpectedTotal # 0
    /\ Occurrences("running") = 0
    /\ Occurrences("pending") > 0
    /\ Occurrences("completed") > 0
    /\ Overall = "pending"

\* C15: when the expected total is zero the overall status is pending,
\* whatever the tally: also when it holds running, completed or failed
\* results.
C15_ZeroTotalIsPending ==
    (StatusCall /\ ExpectedTotal = 0) => Overall = "pending"

C15_Witness ==
    /\ StatusCall
    /\ ExpectedTotal = 0
    /\ Occurrences("running") > 0
    /\ Occurrences("completed") > 0
    /\ Occurrences("failed") > 0
    /\ Overall = "pending"

\* The result sequences that hold the results of r in another order.
Reorderings(r) ==
    {[i \in 1..Len(r) |-> r[p[i]]] : p \in Permutations(1..Len(r))}

\* C16: for a non-zero expected total and a tally with no running
\* and no pending result (all completed, all failed, all cancelled or a mix)
\* the overall status is completed, in whatever order the results are given.
C16_TerminalIsCompleted ==
    ( /\ StatusCall
      /\ ExpectedTotal # 0
      /\ Occurrences("running") = 0
      /\ Occurrences("pending") = 0 )
    => /\ Overall = "completed"
       /\ last.op = "build_response" =>
            \A r \in Reorderings(last.arg.results) :
                BuildResponse(last.arg.request, r,
                              last.arg.experiment_url).status = "completed"

\* C17: when every result of a request failed (the tally holds only failed,
\* and the non-zero expected total is the number of results) the overall
\* status is failed.
C17_AllFailedIsFailed ==
    ( /\ StatusCall
      /\ ExpectedTotal # 0
      /\ Occurrences("failed") = ExpectedTotal
      /\ \A status \in EvaluationStatuses \ {"failed"} :
            Occurrences(status) = 0 )
    => Overall = "failed"

C17_Witness ==
    /\ last.op = "determine_overall_status"
    /\ DOMAIN last.arg.status_counts = {"failed"}
    /\ last.arg.status_counts["failed"] = 3
    /\ ExpectedTotal = 3
    /\ Overall = "failed"

\* C18: build_response returns the results it was given, in the order
\* given, with the overall status derived from their tally and the total
\* count of the request: running as soon as one result is running and the
\* total is not zero.
C18_BuildResponse ==
    last.op = "build_response" =>
        /\ last.ret.results = last.arg.results
        /\ last.ret.total_evaluations = last.arg.request.total_evaluations
        /\ last.ret.status =
              DetermineOverallStatus(CountResultsByStatus(last.arg.results),
                                     last.arg.request.total_evaluations)
        /\ (Occurrences("running") > 0 /\ ExpectedTotal # 0)
              => last.ret.status = "running"

C18_Witness ==
    /\ last.op = "build_response"
    /\ Len(last.arg.results) = 2
    /\ last.arg.results[1].status = "completed"
    /\ last.arg.results[2].status = "running"
    /\ last.arg.results[1].evaluation_id > last.arg.results[2].evaluation_id
    /\ ExpectedTotal # 0
    /\ last.ret.results = last.arg.results
    /\ last.ret.status = "running"

\* The sum of the counts of a tally.
RECURSIVE TallySum(_)
TallySum(status_counts) ==
    IF DOMAIN status_counts = {} THEN 0
    ELSE LET status == CHOOSE s \in DOMAIN status_counts : TRUE
         IN  status_counts[status]
             + TallySum([s \in DOMAIN status_counts \ {status} |-> status_counts[s]])

\* C19: the tally maps each status that occurs to the number of results of
\* that status and has no key for a status that does not occur; its counts
\* sum to the number of results; the tally of no results is the empty map.
C19_Tally ==
    last.op = "count_results_by_status" =>
        /\ DOMAIN last.ret = {last.arg[i].status : i \in 1..Len(last.arg)}
        /\ \A status \in DOMAIN last.ret :
              last.ret[status] =
                  Cardinality({i \in 1..Len(last.arg) : last.arg[i].status = status})
        /\ TallySum(last.ret) = Len(last.arg)
        /\ last.arg = <<>> => last.ret = <<>>

C19_Witness ==
    /\ last.op = "count_results_by_status"
    /\ Len(last.arg) = 3
    /\ DOMAIN last.ret = {"completed", "failed"}
    /\ last.ret["completed"] = 2
    /\ last.ret["failed"] = 1

---------------------------------------------------------------------------
(* The read operations of the registry, checked under Spec.                *)

\* The last call is get_server_by_id, get_model_on_server or get_all_servers.
ReadCall == last.op \in {"get_server", "get_model", "list"}

\* C20, as stated: a read operation never changes the registry, whenever it
\* is called, also as the first call on a fresh registry: both mappings are
\* after the call what they were before it.
C20_Original ==
    ReadCall => (registered = pre.registered /\ runtime = pre.runtime)

\* C20, amended: a read operation never changes the registered mapping, and
\* on a registry that is already initialized it never changes the runtime
\* mapping either; a read that finds the registry uninitialized performs the
\* lazy load of the runtime mapping.
C20_ReadsKeepInitializedRegistry ==
    ReadCall =>
        /\ registered = pre.registered
        /\ pre.initialized => runtime = pre.runtime

C20_Witness ==
    /\ ReadCall
    /\ pre.initialized
    /\ pre.envDirty
    /\ pre.registered # EmptyDict
    /\ pre.runtime # EmptyDict
    /\ registered = pre.registered
    /\ runtime = pre.runtime

---------------------------------------------------------------------------
(* The loader, continued: checked under SpecLoader.                        *)

\* What a runtime dict maps each identifier to: base URL, type and model
\* names, whatever the insertion order and the timestamps.
Mapping(d) ==
    { [server_id |-> d[i].key,
       base_url |-> d[i].value.base_url,
       server_type |-> d[i].value.server_type,
       model_names |-> [j \in 1..Len(d[i].value.models) |->
                            d[i].value.models[j].model_name]] :
      i \in 1..Len(d) }

\* C21: the mapping the loader produces is determined by the set of
\* name/value pairs of the environment: a load over the same variables
\* enumerated in any other order gives the same identifiers, base URLs,
\* types and model names, also when two variables resolve to the same
\* identifier through an _ID override.
C21_OrderIndependent ==
    last.op = "reload" =>
        \A e \in Reorderings(env) :
            Mapping(LoadRuntimeServers(e, Still(e, now))) = Mapping(runtime)

\* The variable is a namespaced or legacy URL variable whose value is empty
\* once trimmed.
EmptyUrlVariable(v) ==
    /\ StartsEndsURL(v[1], LEGACY_PREFIX)
    /\ Strip(v[2]) = <<>>

\* The environment without its empty URL variables, in the same order.
WithoutEmptyUrls(e) == SelectSeq(e, LAMBDA v : ~EmptyUrlVariable(v))

\* The namespaced variable at position i names a type that is not one of
\* ModelType.
UnrecognizedType(i) ==
    LET type_var == SERVER_PREFIX \o Group1(env[i][1], SERVER_PREFIX) \o <<"TYPE">>
    IN  /\ EnvHas(env, type_var)
        /\ LowerStr(GetEnv(env, type_var, <<>>)) \notin ModelTypeValues

\* C22: malformed values never abort a load.  The load ends normally; a
\* namespaced or legacy variable whose URL is empty after trimming produces
\* no entry and every other candidate is loaded as if that variable were
\* not set; every entry has a type of ModelType, and a candidate with an
\* unrecognized type is of type openai-compatible.
C22_MalformedNeverAborts ==
    last.op = "reload" =>
        /\ last.outcome = "ok"
        /\ StripTimes(runtime) =
              StripTimes(LoadRuntimeServers(WithoutEmptyUrls(env),
                                            AnyReadings(WithoutEmptyUrls(env))))
        /\ \A k \in Keys(runtime) :
              DictGet(runtime, k).server_type \in ModelTypeValues
        /\ \A i \in 1..Len(env) :
              (NamespacedProduced(i) # EmptyDict /\ UnrecognizedType(i)) =>
                  NamespacedProduced(i)[1].value.server_type = OPENAI_COMPATIBLE

C22_Witness ==
    /\ last.op = "reload"
    /\ \E i \in 1..Len(env) : EmptyUrlVariable(env[i])
    /\ \E i \in 1..Len(env) :
          /\ NamespacedProduced(i) # EmptyDict
          /\ UnrecognizedType(i)
          /\ StripTimes(runtime) = NamespacedProduced(i)
          /\ runtime[1].value.server_type = OPENAI_COMPATIBLE

\* No variable of the environment gives a model list.
NoModelList == \A i \in 1..Len(env) : env[i][1][Len(env[i][1])] # "MODELS"

\* C25: every entry of the runtime mapping is well formed: its key is the
\* server identifier of the descriptor, the descriptor is active and tagged
\* runtime, its model list is not empty and every model is active and tagged
\* runtime; when no model list is given the descriptor has the single model
\* named after the server identifier.
C25_RuntimeWellFormed ==
    \A i \in 1..Len(runtime) :
        LET server == runtime[i].value
        IN  /\ server.server_id = runtime[i].key
            /\ server.status = ACTIVE
            /\ server.tags = <<"runtime">>
            /\ server.models # <<>>
            /\ \A j \in 1..Len(server.models) :
                  /\ server.models[j].status = ACTIVE
                  /\ server.models[j].tags = <<"runtime">>
            /\ NoModelList =>
                  /\ Len(server.models) = 1
                  /\ server.models[1].model_name = server.server_id

C25_Witness ==
    /\ last.op = "reload"
    /\ Len(runtime) = 2
    /\ Len(runtime[1].value.models) = 2
    /\ runtime[2].value.models[1].model_name = runtime[2].key
    /\ runtime[1].value.server_id = runtime[1].key
    /\ runtime[1].value.created_at < runtime[1].value.updated_at

---------------------------------------------------------------------------
(* The registered mapping under reloads, checked under Spec.               *)

\* C24: every entry of the registered mapping stays manageable: whenever
\* update_server or delete_server is called on an identifier of the
\* registered mapping, also after reloads over a changed environment, the
\* update succeeds and returns the descriptor, and the delete returns true
\* and removes the entry.
C24_RegisteredManageable ==
    /\ (last.op = "update" /\ last.id \in Keys(pre.registered)) =>
          /\ last.outcome = "ok"
          /\ last.ret # None
    /\ (last.op = "delete" /\ last.id \in Keys(pre.registered)) =>
          /\ last.outcome = "ok"
          /\ last.ret = TRUE
          /\ last.id \notin Keys(registered)

---------------------------------------------------------------------------
(* Unserialized register_server calls, checked under SpecRace.             *)

\* Both threads have returned from a register_server call for the same
\* identifier.
BothReturned ==
    /\ \A t \in Threads : inflight[t].pc = "done"
    /\ inflight["t1"].request[1].server_id = inflight["t2"].request[1].server_id

\* C23: two register calls for the same identifier both return success only
\* when they were interleaved between the collision check and the insert,
\* and then the later insert has replaced the earlier descriptor; when the
\* two calls did not overlap, exactly one of them succeeds and the other is
\* refused as a collision.
C23_RegisterRace ==
    BothReturned =>
        /\ (\A t \in Threads : inflight[t].outcome = Some("ok")) =>
              /\ \A t \in Threads : inflight[t].overlapped
              /\ \A t \in Threads :
                    inflight[t].inserted = Cardinality(Threads) =>
                        DictGet(registered, inflight[t].request[1].server_id)
                            = inflight[t].ret[1]
              /\ Len(registered) = 1
        /\ (\E t \in Threads : ~inflight[t].overlapped) =>
              \E t \in Threads :
                 /\ inflight[t].outcome = Some("ok")
                 /\ \A u \in Threads \ {t} :
                       /\ inflight[u].outcome = Some("raise")
                       /\ inflight[u].ret = Some("already_exists")

C23_Witness ==
    /\ BothReturned
    /\ \A t \in Threads : inflight[t].outcome = Some("ok")
    /\ inflight["t1"].inserted = 1
    /\ inflight["t2"].inserted = 2
    /\ inflight["t1"].ret[1].base_url # inflight["t2"].ret[1].base_url
    /\ Values(registered) = <<inflight["t2"].ret[1]>>
    /\ inflight["t2"].ret[1].created_at < now

===========================================================================
